---------------------------- MODULE Spec2Model ----------------------------
(***************************************************************************)
(* A model of notam-mapper-be's geometry core (src/notamai.py): the        *)
(* coordinate decoder parse_coords, the geodesic wrapper get_endpoint, the *)
(* circle sampler create_circle_polygon and the exporter Notam.as_geojson. *)
(*                                                                         *)
(* Decimal degrees are kept exact, as integers in units of 1/36000 degree  *)
(* (a tenth of an arc second): every value parse_coords can read from a    *)
(* two- or three-character field is a whole number of these units.  The    *)
(* bearing of the circle sampler is an IEEE-754 binary64 value, modelled   *)
(* bit for bit (53-bit significand, round to nearest, ties to even),       *)
(* because the number of loop iterations depends on its rounding.          *)
(***************************************************************************)
EXTENDS Integers, Sequences, FiniteSets, TLC

(***************************************************************************)
(* IEEE-754 binary64, as far as create_circle_polygon uses it: 360.0 / n,  *)
(* bearing + bearing_step and bearing < 360.0.  A value is                 *)
(* [neg, e, hi, lo] = (-1)^neg * (hi * 2^26 + lo) * 2^e, with              *)
(* 2^26 <= hi < 2^27 and 0 <= lo < 2^26 (a 53-bit significand split in two *)
(* machine words), or zero (hi = lo = 0, e = 0).  During an operation the  *)
(* significand carries three more low bits (guard, round, sticky), so the  *)
(* low word then has 29 bits.                                              *)
(***************************************************************************)
P26 == 2^26
P27 == 2^27
P28 == 2^28
P29 == 2^29

FZero == [neg |-> FALSE, e |-> 0, hi |-> 0, lo |-> 0]

FIsZero(x) == x.hi = 0 /\ x.lo = 0

\* One bit to the right on an extended significand <<H, L>>; the bit shifted
\* out is kept in the sticky bit.
ShiftR1(m) ==
    LET out == m[2] % 2
        l   == (m[2] \div 2) + (m[1] % 2) * P28
    IN  <<m[1] \div 2, IF out = 1 /\ l % 2 = 0 THEN l + 1 ELSE l>>

RECURSIVE ShiftR(_, _)
ShiftR(m, k) == IF k = 0 THEN m ELSE ShiftR(ShiftR1(m), k - 1)

\* One bit to the left on an extended significand, shifting `bit` in.
ShiftL1(m, bit) ==
    LET l == m[2] * 2 + bit
    IN  <<m[1] * 2 + (l \div P29), l % P29>>

\* Round a 56-bit extended significand (H in [2^26, 2^27)) whose lowest bit
\* weighs 2^e to 53 bits: to nearest, ties to even.
FRound(neg, m, e) ==
    LET grs == m[2] % 8
        lo  == m[2] \div 8
        up  == grs > 4 \/ (grs = 4 /\ lo % 2 = 1)
        lo1 == IF up THEN lo + 1 ELSE lo
        hi1 == IF lo1 = P26 THEN m[1] + 1 ELSE m[1]
        lo2 == IF lo1 = P26 THEN 0 ELSE lo1
    IN  IF hi1 = P27
        THEN [neg |-> neg, e |-> e + 4, hi |-> P26, lo |-> 0]
        ELSE [neg |-> neg, e |-> e + 3, hi |-> hi1, lo |-> lo2]

\* x + y for operands of the same sign (or a zero operand), which is all the
\* sampler's "bearing += bearing_step" ever adds.
FAdd(x, y) ==
    IF FIsZero(x) THEN y
    ELSE IF FIsZero(y) THEN x
    ELSE LET a == IF x.e >= y.e THEN x ELSE y
             b == IF x.e >= y.e THEN y ELSE x
             k == a.e - b.e
         IN  IF k > 55 THEN a
             ELSE LET bs  == ShiftR(<<b.hi, b.lo * 8>>, k)
                      l   == a.lo * 8 + bs[2]
                      s   == <<a.hi + bs[1] + (l \div P29), l % P29>>
                  IN  IF s[1] >= P27
                      THEN FRound(a.neg, ShiftR1(s), a.e - 3 + 1)
                      ELSE FRound(a.neg, s, a.e - 3)

\* x < y for y > 0.
FLt(x, y) ==
    \/ x.neg
    \/ FIsZero(x)
    \/ x.e < y.e
    \/ x.e = y.e /\ (x.hi < y.hi \/ (x.hi = y.hi /\ x.lo < y.lo))

\* The quotient bits of r / n after the binary point, shifted into m until m
\* holds 55 significant bits; then the sticky bit (is the rest nonzero).
\* f counts the fraction bits produced.
RECURSIVE DivBits(_, _, _, _)
DivBits(m, r, n, f) ==
    IF m[1] >= 2^25
    THEN [m |-> ShiftL1(m, IF r = 0 THEN 0 ELSE 1), f |-> f + 1]
    ELSE LET r2  == r * 2
             bit == IF r2 >= n THEN 1 ELSE 0
         IN  DivBits(ShiftL1(m, bit), r2 - bit * n, n, f + 1)

\* a / n correctly rounded, for integers a > 0 and n # 0 that a double holds
\* exactly (Python converts the int n to float before dividing).
FDivInt(a, n) ==
    LET d == IF n < 0 THEN -n ELSE n
        q == DivBits(<<0, a \div d>>, a % d, d, 0)
    IN  FRound(n < 0, q.m, -q.f)

\* The double that holds the non-negative integer a.
FromInt(a) == IF a = 0 THEN FZero ELSE FDivInt(a, 1)

\* 360.0 and 180.0
F360 == FromInt(360)
F180 == FromInt(180)


(***************************************************************************)
(* Text.  A Python str is a sequence of one-character strings.             *)
(***************************************************************************)
Digits == {"0", "1", "2", "3", "4", "5", "6", "7", "8", "9"}

DigitVal(c) ==
    CASE c = "0" -> 0 [] c = "1" -> 1 [] c = "2" -> 2 [] c = "3" -> 3
      [] c = "4" -> 4 [] c = "5" -> 5 [] c = "6" -> 6 [] c = "7" -> 7
      [] c = "8" -> 8 [] c = "9" -> 9

Min(a, b) == IF a < b THEN a ELSE b

\* s[a:b] of Python (0-based, half open, cut at the end of s, never failing).
PySlice(s, a, b) == SubSeq(s, a + 1, Min(b, Len(s)))

\* s without its first n characters.
Drop(s, n) == SubSeq(s, n + 1, Len(s))

RECURSIVE NDigits(_)
NDigits(s) ==
    IF s = <<>> \/ Head(s) \notin Digits THEN 0 ELSE 1 + NDigits(Tail(s))

RECURSIVE DigitsVal(_)
DigitsVal(s) ==
    IF s = <<>> THEN 0 ELSE DigitsVal(SubSeq(s, 1, Len(s) - 1)) * 10 + DigitVal(s[Len(s)])

RECURSIVE Strip(_)
Strip(s) ==
    IF s # <<>> /\ Head(s) = " " THEN Strip(Tail(s))
    ELSE IF s # <<>> /\ s[Len(s)] = " " THEN Strip(SubSeq(s, 1, Len(s) - 1))
    ELSE s

\* Python's float(s) on the characters the model uses (digits, sign, point,
\* exponent letter, blank, other letters): surrounding blanks are dropped,
\* then [sign] digits [. digits] [E [sign] digits] with at least one digit
\* in the mantissa; anything else raises ValueError.  The value is the exact
\* fraction num / den.  ip and fp are the digits before and after the point.
FloatValue(neg, ip, fp, eneg, ev) ==
    [ok  |-> TRUE,
     num |-> (IF neg THEN -1 ELSE 1)
             * (DigitsVal(ip) * 10^Len(fp) + DigitsVal(fp))
             * (IF eneg THEN 1 ELSE 10^ev),
     den |-> 10^Len(fp) * (IF eneg THEN 10^ev ELSE 1)]

ParseExpDigits(z, neg, ip, fp, eneg) ==
    IF z # <<>> /\ NDigits(z) = Len(z)
    THEN FloatValue(neg, ip, fp, eneg, DigitsVal(z))
    ELSE [ok |-> FALSE]

ParseExponent(x, neg, ip, fp) ==
    IF Len(ip) + Len(fp) = 0 THEN [ok |-> FALSE]
    ELSE IF x = <<>> THEN FloatValue(neg, ip, fp, FALSE, 0)
    ELSE IF Head(x) \notin {"e", "E"} THEN [ok |-> FALSE]
    ELSE IF Len(x) > 1 /\ x[2] \in {"+", "-"}
         THEN ParseExpDigits(Drop(x, 2), neg, ip, fp, x[2] = "-")
         ELSE ParseExpDigits(Drop(x, 1), neg, ip, fp, FALSE)

ParseFraction(v, neg, ip) ==
    IF v # <<>> /\ Head(v) = "."
    THEN ParseExponent(Drop(v, 1 + NDigits(Tail(v))), neg, ip,
                       SubSeq(v, 2, 1 + NDigits(Tail(v))))
    ELSE ParseExponent(v, neg, ip, <<>>)

ParseMantissa(u, neg) ==
    ParseFraction(Drop(u, NDigits(u)), neg, SubSeq(u, 1, NDigits(u)))

ParseSign(t) ==
    IF t # <<>> /\ Head(t) \in {"+", "-"}
    THEN ParseMantissa(Tail(t), Head(t) = "-")
    ELSE ParseMantissa(t, FALSE)

PyFloat(s) == ParseSign(Strip(s))

(***************************************************************************)
(* parse_coords.  Decimal degrees in units of 1/Unit degree.               *)
(***************************************************************************)
Unit == 3600 * 10

\* float(field) / div, in units.
Part(f, div) == (f.num * (Unit \div div)) \div f.den

Raised(kind) == [ok |-> FALSE, err |-> kind]

Returned(v) == [ok |-> TRUE, val |-> v]

parse_coords_swapped(coords) ==
    LET f == [i \in 1..6 |->
                 PyFloat(PySlice(coords, <<0, 2, 4, 7, 10, 12>>[i],
                                         <<2, 4, 6, 10, 12, 14>>[i]))]
    IN  IF \E i \in 1..6 : ~f[i].ok THEN Raised("ValueError")
        ELSE IF Len(coords) < 15 THEN Raised("IndexError")
        ELSE LET lat == Part(f[1], 1) + Part(f[2], 60) + Part(f[3], 3600)
                 lon == Part(f[4], 1) + Part(f[5], 60) + Part(f[6], 3600)
             IN  Returned(<<IF coords[7] = "S" THEN -lat ELSE lat,
                            IF coords[15] = "W" THEN -lon ELSE lon>>)

\* The six float() calls run first, in order (a short or non-numeric field
\* raises ValueError); then coords[6] and coords[14] are read (IndexError on
\* a string shorter than 7, or 15).  Nothing checks the length otherwise,
\* the hemisphere letters beyond "S" and "W", or any range.
parse_coords(coords) ==
    LET f == [i \in 1..6 |->
                 PyFloat(PySlice(coords, <<0, 2, 4, 7, 10, 12>>[i],
                                         <<2, 4, 6, 10, 12, 14>>[i]))]
    IN  IF \E i \in 1..6 : ~f[i].ok THEN Raised("ValueError")
        ELSE IF Len(coords) < 15 THEN Raised("IndexError")
        ELSE LET lat == Part(f[1], 1) + Part(f[2], 60) + Part(f[3], 3600)
                 lon == Part(f[4], 1) + Part(f[5], 60) + Part(f[6], 3600)
             IN  Returned(<<IF coords[15] = "W" THEN -lon ELSE lon,
                            IF coords[7] = "S" THEN -lat ELSE lat>>)

nautical_miles_to_meters(nautical_miles) == 1852 * nautical_miles


(***************************************************************************)
(* State.                                                                  *)
(*   coords, decoded     one call of parse_coords: its argument, its       *)
(*                       outcome                                           *)
(*   geod                the WGS-84 direct solver (geographiclib), which   *)
(*                       is a fixed function outside this repository       *)
(*   center .. last_call one activation of create_circle_polygon: its      *)
(*                       arguments, its locals, where it stands (cpc), the *)
(*                       number of get_endpoint calls it made and the last *)
(*                       of them                                           *)
(*   notam .. result     one activation of Notam.as_geojson: self, the     *)
(*                       local feature list, where it stands (epc), the    *)
(*                       two loop positions and what the caller received   *)
(*   error               the exception that ended an activation, if any    *)
(***************************************************************************)
VARIABLES coords, decoded, geod,
          center, radius_m, num_segments, bearing_step, bearing,
          circle_polygon, cpc, calls, last_call,
          notam, features, epc, ri, pi, result, error,
          running, parked,
          partials, pos, last_notam_dict, events, spc

decodeVars == <<coords, decoded>>
circleVars == <<center, radius_m, num_segments, bearing_step, bearing,
                circle_polygon, cpc, calls, last_call>>
exportVars == <<notam, features, epc, ri, pi, result>>
\* The activation that is running, and the suspended frames of the others.
schedVars == <<running, parked>>
\* stream() of /api/parse: what the extraction stream yields, how many of
\* them were taken, the generator's local, the events handed to the response.
streamVars == <<partials, pos, last_notam_dict, events, spc>>
vars == <<decodeVars, geod, circleVars, exportVars, error, schedVars, streamVars>>

(***************************************************************************)
(* get_endpoint.                                                           *)
(***************************************************************************)
\* Geodesic.Direct is deterministic; the model knows its answer only up to
\* the half of the compass the bearing points into.
Sector(azi) ==
    IF ~azi.neg /\ FLt(azi, F180) THEN "east" ELSE "west"

Direct(lat1, lon1, azi1, s12) == geod[Sector(azi1)]

\* -179.99 degrees.
ClampLon == -((17999 * Unit) \div 100)

get_endpoint_noclamp(lat1, lon1, bearing_deg, dist_m) ==
    LET d == Direct(lat1, lon1, bearing_deg, dist_m)
    IN  <<d.lon2, d.lat2>>

get_endpoint(lat1, lon1, bearing_deg, dist_m) ==
    LET d == Direct(lat1, lon1, bearing_deg, dist_m)
    IN  <<IF lon1 < 0 /\ d.lon2 > 0 THEN ClampLon ELSE d.lon2, d.lat2>>

(***************************************************************************)
(* create_circle_polygon, one action per step of its body.                 *)
(***************************************************************************)
\* How many iterations of the sampling loop the model follows.
MaxCalls == 400

ClosedRingLast(ring) == Append(ring, ring[Len(ring)])

\* circle_polygon.append(circle_polygon[0])
ClosedRing(ring) == Append(ring, ring[1])

NoCall ==
    [made |-> FALSE, lat1 |-> 0, lon1 |-> 0, bearing_deg |-> FZero,
     raw |-> [lon2 |-> 0, lat2 |-> 0], ret |-> <<0, 0>>]

\* Lines 50-52: the empty list, the step (ZeroDivisionError for 0 segments),
\* the first bearing.
CircleEnter ==
    /\ cpc = "call"
    /\ circle_polygon' = <<>>
    /\ IF num_segments = 0
       THEN /\ cpc' = "raised"
            /\ error' = "ZeroDivisionError"
            /\ UNCHANGED <<bearing_step, bearing>>
       ELSE /\ cpc' = "loop"
            /\ bearing_step' = FDivInt(360, num_segments)
            /\ bearing' = FZero
            /\ UNCHANGED error
    /\ UNCHANGED <<center, radius_m, num_segments, calls, last_call>>
    /\ UNCHANGED <<streamVars, schedVars, decodeVars, geod, exportVars>>

\* Lines 53-55: one iteration of "while bearing < 360.0".
CircleLoop ==
    /\ cpc = "loop"
    /\ FLt(bearing, F360)
    /\ calls < MaxCalls
    /\ circle_polygon' =
           Append(circle_polygon, get_endpoint(center[2], center[1], bearing, radius_m))
    /\ bearing' = FAdd(bearing, bearing_step)
    /\ calls' = calls + 1
    /\ last_call' = [made |-> TRUE, lat1 |-> center[2], lon1 |-> center[1],
                     bearing_deg |-> bearing,
                     raw |-> Direct(center[2], center[1], bearing, radius_m),
                     ret |-> circle_polygon'[Len(circle_polygon')]]
    /\ UNCHANGED <<center, radius_m, num_segments, bearing_step, cpc>>
    /\ UNCHANGED <<streamVars, schedVars, decodeVars, geod, exportVars, error>>

\* Lines 56-57: the loop has ended; close the ring and return it.
CircleReturn ==
    /\ cpc = "loop"
    /\ ~FLt(bearing, F360)
    /\ circle_polygon' = ClosedRing(circle_polygon)
    /\ cpc' = "returned"
    /\ UNCHANGED <<center, radius_m, num_segments, bearing_step, bearing, calls, last_call>>
    /\ UNCHANGED <<streamVars, schedVars, decodeVars, geod, exportVars, error>>

(***************************************************************************)
(* The data model.  An Optional value is <<>> (None) or <<v>>.             *)
(***************************************************************************)
SurfaceAlt == [cls |-> "SurfaceAlt", type |-> "SFC"]
UnlimitedAlt == [cls |-> "UnlimitedAlt", type |-> "UNL"]
MslAlt(h) == [cls |-> "MslAlt", type |-> "MSL", height_ft |-> h]
AglAlt(h) == [cls |-> "AglAlt", type |-> "AGL", height_ft |-> h]
FlAlt(h) == [cls |-> "FlAlt", type |-> "FL", height_ft |-> h]
AltitudeRange(lo, hi) == [cls |-> "AltitudeRange", type |-> "RANGE", min |-> lo, max |-> hi]

\* The fields of a simple altitude as pydantic prints them, joined by sep.
SimpleFields(a, sep) ==
    "type='" \o a.type \o "'" \o
    (IF a.cls \in {"MslAlt", "AglAlt", "FlAlt"}
     THEN sep \o "height_ft=" \o ToString(a.height_ft) ELSE "")

\* repr(a) of a simple altitude.
AltRepr(a) == a.cls \o "(" \o SimpleFields(a, ", ") \o ")"

\* str(a): pydantic's BaseModel.__str__, the fields joined by a blank.
AltStr(a) ==
    IF a.cls = "AltitudeRange"
    THEN "type='" \o a.type \o "' min=" \o AltRepr(a.min) \o " max=" \o AltRepr(a.max)
    ELSE SimpleFields(a, " ")

\* str(v) of an Optional[str].
PyStr(v) == IF v = <<>> THEN "None" ELSE v[1]

(***************************************************************************)
(* Notam.as_geojson, one action per loop iteration; the call of            *)
(* create_circle_polygon runs the sampler's own actions.                   *)
(***************************************************************************)
\* The segment count as_geojson passes to create_circle_polygon.
ExportSegments == 300

features_prepend(list, f) == <<f>> \o list

\* feature_collection["features"].append(f)
features_append(list, f) == Append(list, f)

RingPropertiesOfFirst(self, range_ring) ==
    [number        |-> self.number,
     title         |-> self.description,
     accountability |-> self.accountability,
     start_date    |-> PyStr(self.start_date),
     end_date      |-> PyStr(self.end_date),
     daily_times   |-> self.daily_times,
     altitude      |-> AltStr(self.range_rings[1].altitude)]

\* Lines 190-198.
RingProperties(self, range_ring) ==
    [number        |-> self.number,
     title         |-> self.description,
     accountability |-> self.accountability,
     start_date    |-> PyStr(self.start_date),
     end_date      |-> PyStr(self.end_date),
     daily_times   |-> self.daily_times,
     altitude      |-> AltStr(range_ring.altitude)]

\* Lines 215-223.
PolygonProperties(self, polygon) ==
    [number        |-> self.number,
     title         |-> self.description,
     accountability |-> self.accountability,
     start_date    |-> PyStr(self.start_date),
     end_date      |-> PyStr(self.end_date),
     daily_times   |-> self.daily_times,
     altitude      |-> AltStr(polygon.altitude)]

Feature(ring, properties) ==
    [type       |-> "Feature",
     geometry   |-> [type |-> "Polygon", coordinates |-> <<ring>>],
     properties |-> properties]

NoResult == [returned |-> FALSE, features |-> <<>>]

\* Lines 174-187: the next range ring; its center is decoded (which may
\* raise) and create_circle_polygon is called.
ExportRingCall ==
    /\ epc = "rings"
    /\ ri <= Len(notam.range_rings)
    /\ LET range_ring == notam.range_rings[ri]
           c == parse_coords(range_ring.center.lat \o range_ring.center.lon)
       IN  IF c.ok
           THEN /\ center' = c.val
                /\ radius_m' = nautical_miles_to_meters(range_ring.radius_nm)
                /\ num_segments' = ExportSegments
                /\ calls' = 0
                /\ cpc' = "call"
                /\ epc' = "circle"
                /\ UNCHANGED error
           ELSE /\ epc' = "raised"
                /\ error' = c.err
                /\ UNCHANGED <<center, radius_m, num_segments, calls, cpc>>
    /\ UNCHANGED <<bearing_step, bearing, circle_polygon, last_call>>
    /\ UNCHANGED <<streamVars, schedVars, decodeVars, geod, notam, features, ri, pi, result>>

ExportRingAppendConsuming ==
    /\ epc = "circle"
    /\ cpc = "returned"
    /\ features' = features_append(features,
           Feature(circle_polygon, RingProperties(notam, notam.range_rings[ri])))
    /\ notam' = [notam EXCEPT !.range_rings = Tail(@)]
    /\ epc' = "rings"
    /\ cpc' = "idle"
    /\ UNCHANGED <<center, radius_m, num_segments, bearing_step, bearing,
                   circle_polygon, calls, last_call>>
    /\ UNCHANGED <<streamVars, schedVars, decodeVars, geod, ri, pi, result, error>>

\* Lines 175-200: create_circle_polygon has returned; the feature is built
\* and appended.
ExportRingAppend ==
    /\ epc = "circle"
    /\ cpc = "returned"
    /\ features' = features_append(features,
           Feature(circle_polygon, RingProperties(notam, notam.range_rings[ri])))
    /\ ri' = ri + 1
    /\ epc' = "rings"
    /\ cpc' = "idle"
    /\ UNCHANGED <<center, radius_m, num_segments, bearing_step, bearing,
                   circle_polygon, calls, last_call>>
    /\ UNCHANGED <<streamVars, schedVars, decodeVars, geod, notam, pi, result, error>>

\* Lines 173-201: no range ring is left.
ExportRingsDone ==
    /\ epc = "rings"
    /\ ri > Len(notam.range_rings)
    /\ epc' = "polygons"
    /\ UNCHANGED <<streamVars, schedVars, decodeVars, geod, circleVars, notam, features, ri, pi, result, error>>

ExportPolygonSkipBad ==
    /\ epc = "polygons"
    /\ pi <= Len(notam.polygons)
    /\ LET polygon == notam.polygons[pi]
           dec == [j \in 1..Len(polygon.coordinates) |->
                      parse_coords(polygon.coordinates[j].lat \o polygon.coordinates[j].lon)]
           bad == {j \in 1..Len(polygon.coordinates) : ~dec[j].ok}
       IN  /\ features' = IF bad = {}
                          THEN features_append(features,
                                   Feature([j \in 1..Len(polygon.coordinates) |-> dec[j].val],
                                           PolygonProperties(notam, polygon)))
                          ELSE features
           /\ pi' = pi + 1
           /\ UNCHANGED <<epc, error>>
    /\ UNCHANGED <<streamVars, schedVars, decodeVars, geod, circleVars, notam, ri, result>>

\* Lines 202-225: the next polygon; its vertices are decoded in order (the
\* first bad one raises) and the feature is appended.  The ring is the
\* decoded list as it is.
ExportPolygon ==
    /\ epc = "polygons"
    /\ pi <= Len(notam.polygons)
    /\ LET polygon == notam.polygons[pi]
           dec == [j \in 1..Len(polygon.coordinates) |->
                      parse_coords(polygon.coordinates[j].lat \o polygon.coordinates[j].lon)]
           bad == {j \in 1..Len(polygon.coordinates) : ~dec[j].ok}
       IN  IF bad = {}
           THEN /\ features' = features_append(features,
                       Feature([j \in 1..Len(polygon.coordinates) |-> dec[j].val],
                               PolygonProperties(notam, polygon)))
                /\ pi' = pi + 1
                /\ UNCHANGED <<epc, error>>
           ELSE /\ epc' = "raised"
                /\ error' = dec[CHOOSE j \in bad : \A k \in bad : j <= k].err
                /\ UNCHANGED <<features, pi>>
    /\ UNCHANGED <<streamVars, schedVars, decodeVars, geod, circleVars, notam, ri, result>>

\* Line 226.
ExportReturn ==
    /\ epc = "polygons"
    /\ pi > Len(notam.polygons)
    /\ result' = [returned |-> TRUE, features |-> features]
    /\ epc' = "returned"
    /\ UNCHANGED <<streamVars, schedVars, decodeVars, geod, circleVars, notam, features, ri, pi, error>>

(***************************************************************************)
(* One call of parse_coords.                                               *)
(***************************************************************************)
Decode ==
    /\ ~decoded.called
    /\ decoded' = [called |-> TRUE, out |-> parse_coords(coords)]
    /\ UNCHANGED <<streamVars, schedVars, coords, geod, circleVars, exportVars, error>>

(***************************************************************************)
(* Python values as the /api/parse stream handles them.  A value is None,  *)
(* a str, a float, a list, a dict (its items in order) or a pydantic model *)
(* (its fields in order).                                                  *)
(***************************************************************************)
PyNone == [k |-> "none"]
PyString(s) == [k |-> "str", s |-> s]
\* A float object: its identity, and not-a-number or sign and magnitude
\* (whole numbers are enough here).
PyFloatObj(id, nan, neg, mag) ==
    [k |-> "float", id |-> id, nan |-> nan, neg |-> neg, mag |-> mag]
PyList(items) == [k |-> "list", items |-> items]
PyDict(items) == [k |-> "dict", items |-> items]
PyModel(cls, items) == [k |-> "model", cls |-> cls, items |-> items]

RECURSIVE model_dump(_)
\* BaseModel.model_dump(): every model becomes the dict of its fields; the
\* leaves are the objects the model holds.
model_dump(v) ==
    IF v.k = "model"
    THEN PyDict([i \in 1..Len(v.items) |-> <<v.items[i][1], model_dump(v.items[i][2])>>])
    ELSE IF v.k = "list"
    THEN PyList([i \in 1..Len(v.items) |-> model_dump(v.items[i])])
    ELSE v

RECURSIVE PyEq(_, _)
\* a == b.  Floats compare by value (a NaN equals nothing, 0.0 equals -0.0);
\* the items of lists and dicts compare by "is" first, then by ==.
PyEq(a, b) ==
    IF a.k # b.k THEN FALSE
    ELSE IF a.k = "none" THEN TRUE
    ELSE IF a.k = "str" THEN a.s = b.s
    ELSE IF a.k = "float"
    THEN IF a.nan \/ b.nan THEN a.nan /\ b.nan /\ a.id = b.id
         ELSE a.mag = b.mag /\ (a.neg = b.neg \/ a.mag = 0)
    ELSE IF a.k = "list"
    THEN /\ Len(a.items) = Len(b.items)
         /\ \A i \in 1..Len(a.items) : PyEq(a.items[i], b.items[i])
    ELSE /\ Len(a.items) = Len(b.items)
         /\ \A i \in 1..Len(a.items) : \E j \in 1..Len(b.items) :
                /\ a.items[i][1] = b.items[j][1]
                /\ PyEq(a.items[i][2], b.items[j][2])

\* camel_converter.to_camel on the field names of the data model.
to_camel(key) ==
    CASE key = "range_rings" -> "rangeRings"
      [] key = "radius_nm"   -> "radiusNm"
      [] key = "height_ft"   -> "heightFt"
      [] key = "daily_times" -> "dailyTimes"
      [] key = "start_date"  -> "startDate"
      [] key = "end_date"    -> "endDate"
      [] OTHER               -> key

RECURSIVE dict_to_camel(_)
\* camel_converter.dict_to_camel: the keys of every dict, nested ones too.
dict_to_camel(v) ==
    IF v.k = "dict"
    THEN PyDict([i \in 1..Len(v.items) |->
                    <<to_camel(v.items[i][1]), dict_to_camel(v.items[i][2])>>])
    ELSE IF v.k = "list"
    THEN PyList([i \in 1..Len(v.items) |-> dict_to_camel(v.items[i])])
    ELSE v

RECURSIVE JoinComma(_)
JoinComma(strs) ==
    IF strs = <<>> THEN ""
    ELSE IF Len(strs) = 1 THEN strs[1]
    ELSE strs[1] \o ", " \o JoinComma(Tail(strs))

RECURSIVE json_dumps(_)
\* json.dumps with its defaults.
json_dumps(v) ==
    IF v.k = "none" THEN "null"
    ELSE IF v.k = "str" THEN "\"" \o v.s \o "\""
    ELSE IF v.k = "float"
    THEN IF v.nan THEN "NaN"
         ELSE (IF v.neg THEN "-" ELSE "") \o ToString(v.mag) \o ".0"
    ELSE IF v.k = "list"
    THEN "[" \o JoinComma([i \in 1..Len(v.items) |-> json_dumps(v.items[i])]) \o "]"
    ELSE "{" \o JoinComma([i \in 1..Len(v.items) |->
                 "\"" \o v.items[i][1] \o "\": " \o json_dumps(v.items[i][2])]) \o "}"

\* Lines 34-35 of server.py: the event for a dumped dict.
SseEvent(notam_dict) == "data:" \o json_dumps(dict_to_camel(notam_dict)) \o "\n\n"

(***************************************************************************)
(* stream() of /api/parse, one action per partial taken from               *)
(* parse_notam_streaming, which yields the partials of the extraction       *)
(* stream in their order.                                                  *)
(***************************************************************************)
\* notam_dict != last_notam_dict, where last_notam_dict is None (<<>>) or a
\* dict.
DiffersFromLast(notam_dict, last) ==
    IF last = <<>> THEN TRUE ELSE ~PyEq(notam_dict, last[1])

\* Lines 30-35 of server.py: one iteration of the for loop.
StreamNext ==
    /\ spc = "loop"
    /\ pos < Len(partials)
    /\ pos' = pos + 1
    /\ LET notam_dict == model_dump(partials[pos + 1])
       IN  IF DiffersFromLast(notam_dict, last_notam_dict)
           THEN /\ last_notam_dict' = <<notam_dict>>
                /\ events' = Append(events, SseEvent(notam_dict))
           ELSE UNCHANGED <<last_notam_dict, events>>
    /\ UNCHANGED <<partials, spc>>
    /\ UNCHANGED <<decodeVars, geod, circleVars, exportVars, error, schedVars>>

\* The extraction stream is exhausted and the generator returns.
StreamEnd ==
    /\ spc = "loop"
    /\ pos = Len(partials)
    /\ spc' = "done"
    /\ UNCHANGED <<partials, pos, last_notam_dict, events>>
    /\ UNCHANGED <<decodeVars, geod, circleVars, exportVars, error, schedVars>>

(***************************************************************************)
(* Inputs.                                                                 *)
(***************************************************************************)
\* The longest segment count (besides ExportSegments) the sampler is called
\* with, and the most range rings plus polygons of an exported Notam.
MaxSegments == 13
MaxEntities == 3

SegmentCounts == (-1 .. MaxSegments) \cup {ExportSegments}

PtWest == [lon2 |-> -(120 * Unit), lat2 |-> 40 * Unit]
PtZero == [lon2 |-> 0, lat2 |-> 0]
PtEast == [lon2 |-> 170 * Unit, lat2 |-> -(10 * Unit)]

GeodWorlds == [{"east", "west"} -> {PtWest, PtZero, PtEast}]

Centers == {<<-(115 * Unit), 42 * Unit>>, <<0, 0>>, <<10 * Unit, -(5 * Unit)>>}

Radii == {0, nautical_miles_to_meters(372)}

LatFields == {<<"4", "2", "2", "7", "5", "0">>, <<"9", "9", "9", "9", "9", "9">>, <<"0", "0", "0", "0", "0", "0">>, <<"4", "2", "X", "7", "5", "0">>, <<"4", ".", "2", "7", "5", "0">>}
LatLetters == {<<"N">>, <<"S">>, <<"X">>}
LonFields == {<<"1", "1", "5", "4", "4", "0", "3">>, <<"0", "0", "0", "0", "0", "0", "0">>, <<"1", "E", "2", "0", "0", "0", "0">>, <<"1", "1", "5", "4", "4", "X", "3">>, <<"1", "1", "5", "4", "4", "0">>, <<"1", "1", "5", "4", "4", "0", "3", "0">>}
LonLetters == {<<"W">>, <<"E">>, <<"N">>}

CoordInputs ==
    {a \o b \o c \o d : a \in LatFields, b \in LatLetters, c \in LonFields, d \in LonLetters}
    \cup {<<>>, <<"1", "2", "3", "4">>}

Coordinates(lat, lon) == [lat |-> lat, lon |-> lon]

V1 == Coordinates(<<"4", "2", "4", "0", "0", "6", "N">>, <<"1", "1", "5", "3", "2", "2", "5", "W">>)
V2 == Coordinates(<<"2", "7", "0", "8", "2", "2", "S">>, <<"0", "1", "6", "4", "8", "5", "0", "E">>)
V3 == Coordinates(<<"3", "0", "1", "2", "0", "4", "N">>, <<"1", "1", "3", "2", "7", "0", "4", "W">>)
VBad == Coordinates(<<"3", "3", "3", "9", "X", "7", "N">>, <<"1", "1", "8", "2", "1", "5", "8", "W">>)

RangeRing(c, r, a) == [center |-> c, radius_nm |-> r, altitude |-> a]
Polygon(cs, a) == [coordinates |-> cs, altitude |-> a]

RingA == RangeRing(V1, 372, AltitudeRange(FlAlt(400), UnlimitedAlt))
RingB == RangeRing(V2, 229, MslAlt(10000))
RingBad == RangeRing(VBad, 193, AglAlt(50))

PolyClosed == Polygon(<<V1, V2, V3, V1>>, AltitudeRange(SurfaceAlt, UnlimitedAlt))
PolyOpen == Polygon(<<V1, V2, V3>>, AltitudeRange(SurfaceAlt, FlAlt(400)))
PolyBad == Polygon(<<V1, VBad, V3>>, AltitudeRange(SurfaceAlt, MslAlt(10000)))
PolyShort == Polygon(<<V1, V2>>, AltitudeRange(AglAlt(50), UnlimitedAlt))

RECURSIVE SeqsUpTo(_, _)
SeqsUpTo(S, n) ==
    IF n = 0 THEN {<<>>}
    ELSE LET shorter == SeqsUpTo(S, n - 1)
         IN  shorter \cup {Append(q, x) : q \in shorter, x \in S}

Headers ==
    {[accountability |-> <<"GPS">>, location |-> <<"ZLC">>, number |-> <<"01/020">>,
      description |-> <<"GPS MAY NOT BE AVBL">>, daily_times |-> <<"1700-2000">>,
      start_date |-> <<"2021-01-08T17:00:00Z">>, end_date |-> <<"2021-01-12T20:00:00Z">>,
      caveats |-> <<>>],
     [accountability |-> <<>>, location |-> <<>>, number |-> <<>>,
      description |-> <<>>, daily_times |-> <<>>,
      start_date |-> <<>>, end_date |-> <<>>,
      caveats |-> <<"UNVERIFIED">>]}

Notams ==
    {[accountability |-> h.accountability, location |-> h.location, number |-> h.number,
      description |-> h.description, range_rings |-> rr, polygons |-> pp,
      daily_times |-> h.daily_times, start_date |-> h.start_date,
      end_date |-> h.end_date, caveats |-> h.caveats] :
        h \in Headers,
        rr \in SeqsUpTo({RingA, RingB, RingBad}, MaxEntities),
        pp \in SeqsUpTo({PolyClosed, PolyOpen, PolyBad, PolyShort}, MaxEntities)}

EmptyNotam ==
    [accountability |-> <<>>, location |-> <<>>, number |-> <<>>, description |-> <<>>,
     range_rings |-> <<>>, polygons |-> <<>>, daily_times |-> <<>>,
     start_date |-> <<>>, end_date |-> <<>>, caveats |-> <<>>]

\* The most partials one extraction stream yields.
MaxPartials == 3

\* A partial range ring: only its radius has arrived.
PartialRing(radius) ==
    PyModel("PartialRangeRing",
        <<<<"center", PyNone>>, <<"radius_nm", radius>>, <<"altitude", PyNone>>>>)

\* A partial Notam with the fields that have arrived so far.
PartialNotam(number, rings) ==
    PyModel("PartialNotam",
        <<<<"accountability", PyNone>>, <<"location", PyNone>>, <<"number", number>>,
          <<"description", PyNone>>, <<"range_rings", PyList(rings)>>,
          <<"polygons", PyList(<<>>)>>, <<"daily_times", PyList(<<>>)>>,
          <<"start_date", PyNone>>, <<"end_date", PyNone>>,
          <<"caveats", PyList(<<>>)>>>>)

\* The radii a partial can hold: 372.0, 0.0, -0.0 and two NaN objects.
PartialRadii ==
    {PyFloatObj(1, FALSE, FALSE, 372), PyFloatObj(1, FALSE, FALSE, 0),
     PyFloatObj(1, FALSE, TRUE, 0),
     PyFloatObj(1, TRUE, FALSE, 0), PyFloatObj(2, TRUE, FALSE, 0)}

PartialValues ==
    {PartialNotam(PyNone, <<>>), PartialNotam(PyString("01/020"), <<>>)}
    \cup {PartialNotam(PyString("01/020"), <<PartialRing(r)>>) : r \in PartialRadii}

(***************************************************************************)
(* Specifications: each is one entry point, called on every input.         *)
(***************************************************************************)
NotDecoded == [called |-> FALSE, out |-> Raised("")]

DecodeIdle == coords = <<>> /\ decoded = NotDecoded

CircleIdle ==
    /\ center = <<0, 0>> /\ radius_m = 0 /\ num_segments = 0
    /\ bearing_step = FZero /\ bearing = FZero /\ circle_polygon = <<>>
    /\ cpc = "idle" /\ calls = 0 /\ last_call = NoCall

ExportIdle ==
    /\ notam = EmptyNotam /\ features = <<>> /\ epc = "idle"
    /\ ri = 1 /\ pi = 1 /\ result = NoResult

\* An activation of as_geojson owns its locals, the locals of the sampler
\* call it has made, its self and the exception it raised; nothing else is
\* read or written by the export (lines 47-57, 167-226).
CurrentFrame ==
    [center |-> center, radius_m |-> radius_m, num_segments |-> num_segments,
     bearing_step |-> bearing_step, bearing |-> bearing,
     circle_polygon |-> circle_polygon, cpc |-> cpc, calls |-> calls,
     last_call |-> last_call,
     notam |-> notam, features |-> features, epc |-> epc, ri |-> ri, pi |-> pi,
     result |-> result, error |-> error]

IdleFrame ==
    [center |-> <<0, 0>>, radius_m |-> 0, num_segments |-> 0,
     bearing_step |-> FZero, bearing |-> FZero,
     circle_polygon |-> <<>>, cpc |-> "idle", calls |-> 0,
     last_call |-> NoCall,
     notam |-> EmptyNotam, features |-> <<>>, epc |-> "idle", ri |-> 1, pi |-> 1,
     result |-> NoResult, error |-> ""]

\* The frame of as_geojson as it is called on n.
CallFrame(n) == [IdleFrame EXCEPT !.notam = n, !.epc = "rings"]

\* Two exports run side by side.
Callers == {1, 2}

SchedIdle == running = 1 /\ parked = [c \in Callers |-> IdleFrame]

\* The running export is suspended between two of its steps and another
\* one goes on where it had stopped.
Switch ==
    \E c \in Callers \ {running} :
        /\ running' = c
        /\ parked' = [parked EXCEPT ![running] = CurrentFrame, ![c] = IdleFrame]
        /\ center' = parked[c].center
        /\ radius_m' = parked[c].radius_m
        /\ num_segments' = parked[c].num_segments
        /\ bearing_step' = parked[c].bearing_step
        /\ bearing' = parked[c].bearing
        /\ circle_polygon' = parked[c].circle_polygon
        /\ cpc' = parked[c].cpc
        /\ calls' = parked[c].calls
        /\ last_call' = parked[c].last_call
        /\ notam' = parked[c].notam
        /\ features' = parked[c].features
        /\ epc' = parked[c].epc
        /\ ri' = parked[c].ri
        /\ pi' = parked[c].pi
        /\ result' = parked[c].result
        /\ error' = parked[c].error
        /\ UNCHANGED <<streamVars, decodeVars, geod>>

StreamIdle ==
    /\ partials = <<>> /\ pos = 0 /\ last_notam_dict = <<>>
    /\ events = <<>> /\ spc = "idle"

\* as_geojson is called on a Notam (lines 169-172: the empty collection).
Init ==
    /\ DecodeIdle
    /\ SchedIdle
    /\ StreamIdle
    /\ CircleIdle
    /\ geod = [east |-> PtEast, west |-> PtWest]
    /\ notam \in {n \in Notams : Len(n.range_rings) + Len(n.polygons) <= MaxEntities}
    /\ features = <<>> /\ epc = "rings" /\ ri = 1 /\ pi = 1 /\ result = NoResult
    /\ error = ""

Next ==
    \/ ExportRingCall
    \/ CircleEnter
    \/ CircleLoop
    \/ CircleReturn
    \/ ExportRingAppend
    \/ ExportRingsDone
    \/ ExportPolygon
    \/ ExportReturn

Spec == Init /\ [][Next]_vars

\* create_circle_polygon is called.
InitCircle ==
    /\ DecodeIdle
    /\ SchedIdle
    /\ StreamIdle
    /\ ExportIdle
    /\ geod \in GeodWorlds
    /\ center \in Centers
    /\ radius_m \in Radii
    /\ num_segments \in SegmentCounts
    /\ bearing_step = FZero /\ bearing = FZero /\ circle_polygon = <<>>
    /\ cpc = "call" /\ calls = 0 /\ last_call = NoCall
    /\ error = ""

NextCircle == CircleEnter \/ CircleLoop \/ CircleReturn

SpecCircle == InitCircle /\ [][NextCircle]_vars

\* parse_coords is called.
InitDecode ==
    /\ coords \in CoordInputs
    /\ SchedIdle
    /\ StreamIdle
    /\ decoded = NotDecoded
    /\ CircleIdle
    /\ ExportIdle
    /\ geod = [east |-> PtEast, west |-> PtWest]
    /\ error = ""

NextDecode == Decode

SpecDecode == InitDecode /\ [][NextDecode]_vars

\* The Notams exported side by side: one of a range ring and a polygon, next
\* to one of another range ring, of a bad range ring, or of a polygon only.
HeaderSet == CHOOSE h \in Headers : h.number # <<>>
HeaderUnset == CHOOSE h \in Headers : h.number = <<>>

NotamOf(h, rr, pp) ==
    [accountability |-> h.accountability, location |-> h.location, number |-> h.number,
     description |-> h.description, range_rings |-> rr, polygons |-> pp,
     daily_times |-> h.daily_times, start_date |-> h.start_date,
     end_date |-> h.end_date, caveats |-> h.caveats]

FirstNotams == {NotamOf(HeaderSet, <<RingA>>, <<PolyOpen>>)}

SecondNotams ==
    {NotamOf(HeaderUnset, <<RingB>>, <<>>),
     NotamOf(HeaderSet, <<RingBad>>, <<PolyClosed>>),
     NotamOf(HeaderUnset, <<>>, <<PolyClosed, PolyBad>>)}

\* as_geojson is called on two Notams, one call each; the first one runs.
InitInterleave ==
    /\ DecodeIdle
    /\ StreamIdle
    /\ geod = [east |-> PtEast, west |-> PtWest]
    /\ running = 1
    /\ \E n1 \in FirstNotams, n2 \in SecondNotams :
           /\ parked = [c \in Callers |-> IF c = 1 THEN IdleFrame ELSE CallFrame(n2)]
           /\ notam = n1
    /\ CircleIdle
    /\ features = <<>> /\ epc = "rings" /\ ri = 1 /\ pi = 1 /\ result = NoResult
    /\ error = ""

NextInterleave == Next \/ Switch

SpecInterleave == InitInterleave /\ [][NextInterleave]_vars

\* /api/parse is called: stream() starts with last_notam_dict = None and
\* takes what the extraction stream yields.
InitStream ==
    /\ DecodeIdle
    /\ SchedIdle
    /\ CircleIdle
    /\ ExportIdle
    /\ geod = [east |-> PtEast, west |-> PtWest]
    /\ error = ""
    /\ partials \in SeqsUpTo(PartialValues, MaxPartials)
    /\ pos = 0 /\ last_notam_dict = <<>> /\ events = <<>> /\ spc = "loop"

NextStream == StreamNext \/ StreamEnd

SpecStream == InitStream /\ [][NextStream]_vars

(***************************************************************************)
(* Properties.                                                             *)
(***************************************************************************)
NRings == Len(notam.range_rings)
NPolygons == Len(notam.polygons)

\* The decoded vertices of a polygon whose vertices all decode.
Decoded(polygon) ==
    [j \in 1..Len(polygon.coordinates) |->
        parse_coords(polygon.coordinates[j].lat \o polygon.coordinates[j].lon).val]

\* C1: in a returned collection the ring of every polygon whose decoded
\* vertices do not end where they start is those vertices with the first
\* one appended, and the ring of a polygon that arrives closed is its
\* decoded vertices unchanged.
C1_PolygonRingsClosed ==
    result.returned =>
        \A j \in 1..NPolygons :
            LET dec  == Decoded(notam.polygons[j])
                ring == result.features[NRings + j].geometry.coordinates[1]
            IN  /\ ring[1] = ring[Len(ring)]
                /\ ring = IF dec[1] = dec[Len(dec)] THEN dec ELSE Append(dec, dec[1])

\* C2: the caller receives either a collection with one feature per range
\* ring and per polygon, or (when the export raised) nothing at all.
C2_CompleteOrNothing ==
    /\ result.returned => Len(result.features) = NRings + NPolygons
    /\ epc = "raised" => result = NoResult
    /\ ~result.returned => result.features = <<>>

\* The export raised at an entity that came after one already converted.
C2_Witness ==
    epc = "raised" /\ Len(features) >= 1 /\ error = "ValueError" /\ result = NoResult

\* C3: the returned list has NRings + NPolygons features; the i-th is the
\* i-th range ring's (a circle ring with that ring's altitude), the
\* (NRings + j)-th is the j-th polygon's (its decoded vertices, its altitude).
C3_FeaturesInInputOrder ==
    result.returned =>
        /\ Len(result.features) = NRings + NPolygons
        /\ \A i \in 1..NRings :
              LET f == result.features[i]
              IN  /\ f.properties.altitude = AltStr(notam.range_rings[i].altitude)
                  /\ Len(f.geometry.coordinates[1]) > ExportSegments
        /\ \A j \in 1..NPolygons :
              LET f == result.features[NRings + j]
              IN  /\ f.properties.altitude = AltStr(notam.polygons[j].altitude)
                  /\ f.geometry.coordinates = <<Decoded(notam.polygons[j])>>

\* Two different range rings and a polygon were exported.
C3_Witness ==
    /\ result.returned
    /\ NRings = 2 /\ NPolygons = 1
    /\ notam.range_rings[1] # notam.range_rings[2]
    /\ Len(result.features) = 3

\* A string of the fixed-width format DDMMSS[N|S]DDDMMSS[W|E].
WellFormed(c) ==
    /\ Len(c) = 15
    /\ \A i \in (1..6) \cup (8..14) : c[i] \in Digits
    /\ c[7] \in {"N", "S"}
    /\ c[15] \in {"W", "E"}

\* C4: parse_coords fails on every string whose length is not 15, or with a
\* degree, minute or second field that is not all digits, or with a letter
\* other than N or S at position 6, or other than W or E at position 14.
C4_MalformedRejected ==
    (decoded.called /\ ~WellFormed(coords)) => ~decoded.out.ok

\* C5: a sampler call with a segment count <= 0 makes no geodesic call and
\* returns no ring, and an export of a polygon with fewer than 3 vertices
\* returns no collection.
C5_InvalidGeometryRejected ==
    /\ (cpc # "idle" /\ num_segments <= 0) =>
           (calls = 0 /\ ~last_call.made /\ cpc # "returned")
    /\ (\E j \in 1..NPolygons : Len(notam.polygons[j].coordinates) < 3) =>
           ~result.returned

\* C6: the ring create_circle_polygon returns ends with its first point.
C6_CircleClosed ==
    cpc = "returned" =>
        /\ Len(circle_polygon) >= 2
        /\ circle_polygon[Len(circle_polygon)] = circle_polygon[1]

\* A returned ring whose last sampled point is not its first point.
C6_Witness ==
    /\ cpc = "returned"
    /\ num_segments >= 2
    /\ circle_polygon[Len(circle_polygon) - 1] # circle_polygon[1]
    /\ circle_polygon[Len(circle_polygon)] = circle_polygon[1]

\* C7: the ring create_circle_polygon returns has num_segments + 1 points.
C7_SegmentsPlusOnePoints ==
    cpc = "returned" => Len(circle_polygon) = num_segments + 1

\* C8: get_endpoint returns the solver's latitude; its longitude is -179.99
\* when the start longitude is negative and the solver's is positive, and
\* the solver's longitude otherwise; so from a negative start longitude the
\* returned longitude is never positive.
C8_AntimeridianClamp ==
    last_call.made =>
        LET c == last_call
            clamp == c.lon1 < 0 /\ c.raw.lon2 > 0
        IN  /\ c.ret[2] = c.raw.lat2
            /\ clamp => c.ret[1] * 100 = -(17999 * Unit)
            /\ ~clamp => c.ret[1] = c.raw.lon2
            /\ c.lon1 < 0 => c.ret[1] <= 0

\* A call from a negative longitude whose solver longitude was positive.
C8_Witness ==
    /\ last_call.made
    /\ last_call.lon1 < 0
    /\ last_call.raw.lon2 > 0
    /\ last_call.ret[1] < 0

\* C9: every feature built carries the Notam's number, description (as
\* title), accountability, dates and daily times, and the rendering of the
\* altitude of its own range ring or polygon.
C9_SharedPropertiesOwnAltitude ==
    \A i \in 1..Len(features) :
        LET p   == features[i].properties
            src == IF i <= NRings THEN notam.range_rings[i]
                   ELSE notam.polygons[i - NRings]
        IN  /\ p.number = notam.number
            /\ p.title = notam.description
            /\ p.accountability = notam.accountability
            /\ p.start_date = PyStr(notam.start_date)
            /\ p.end_date = PyStr(notam.end_date)
            /\ p.daily_times = notam.daily_times
            /\ p.altitude = AltStr(src.altitude)

\* A returned collection with features of different altitudes, from a Notam
\* whose identification fields are set.
C9_Witness ==
    /\ result.returned
    /\ Len(result.features) >= 3
    /\ notam.number # <<>>
    /\ NRings >= 2
    /\ result.features[1].properties.altitude # result.features[2].properties.altitude
    /\ result.features[2].properties.altitude # result.features[3].properties.altitude

\* The number written by the two, or three, digits of c from position i.
Num2(c, i) == DigitVal(c[i]) * 10 + DigitVal(c[i + 1])
Num3(c, i) == DigitVal(c[i]) * 100 + DigitVal(c[i + 1]) * 10 + DigitVal(c[i + 2])

\* C10: on a well-formed string parse_coords returns <<longitude, latitude>>,
\* each magnitude degrees + minutes/60 + seconds/3600 of its digits (here in
\* units of 1/36000 degree), the latitude negated exactly for S and the
\* longitude exactly for W, with no range check.
C10_DecodedValue ==
    (decoded.called /\ WellFormed(coords)) =>
        LET lat == Num2(coords, 1) * 36000 + Num2(coords, 3) * 600 + Num2(coords, 5) * 10
            lon == Num3(coords, 8) * 36000 + Num2(coords, 11) * 600 + Num2(coords, 13) * 10
        IN  /\ decoded.out.ok
            /\ decoded.out.val = <<IF coords[15] = "W" THEN -lon ELSE lon,
                                   IF coords[7] = "S" THEN -lat ELSE lat>>

\* An out-of-range southern, eastern coordinate was decoded.
C10_Witness ==
    /\ decoded.called
    /\ WellFormed(coords)
    /\ SubSeq(coords, 1, 7) = <<"9", "9", "9", "9", "9", "9", "S">>
    /\ coords[15] = "E"
    /\ decoded.out.ok
    /\ decoded.out.val[2] < -(90 * Unit)
    /\ decoded.out.val[1] > 0

\* The frame of caller c, running or suspended.
FrameOf(c) == IF c = running THEN CurrentFrame ELSE parked[c]

RECURSIVE BearingsFrom(_, _, _)
\* The n bearings b, b + step, (b + step) + step, ... of binary64 addition.
BearingsFrom(b, step, n) ==
    IF n = 1 THEN <<b>>
    ELSE LET left  == BearingsFrom(b, step, n \div 2)
             right == BearingsFrom(FAdd(left[Len(left)], step), step, n - n \div 2)
         IN  left \o right

\* The bearings below 360 degrees at which an exported circle is sampled.
ExportBearings ==
    SelectSeq(BearingsFrom(FZero, FDivInt(360, ExportSegments), ExportSegments + 2),
              LAMBDA b : FLt(b, F360))

\* The ring of a range ring whose center decodes, computed on its own.
AloneRing(range_ring) ==
    LET c   == parse_coords(range_ring.center.lat \o range_ring.center.lon).val
        r   == nautical_miles_to_meters(range_ring.radius_nm)
        pts == [k \in 1..Len(ExportBearings) |->
                   get_endpoint(c[2], c[1], ExportBearings[k], r)]
    IN  Append(pts, pts[1])

\* What exporting n alone hands to its caller: nothing when a center or a
\* vertex does not decode, else one feature per range ring and per polygon.
AloneOutcome(n) ==
    LET nr == Len(n.range_rings)
        np == Len(n.polygons)
        decodes ==
            /\ \A i \in 1..nr :
                   parse_coords(n.range_rings[i].center.lat \o n.range_rings[i].center.lon).ok
            /\ \A j \in 1..np : \A k \in 1..Len(n.polygons[j].coordinates) :
                   parse_coords(n.polygons[j].coordinates[k].lat
                                \o n.polygons[j].coordinates[k].lon).ok
    IN  IF decodes
        THEN [returned |-> TRUE,
              features |-> [i \in 1..(nr + np) |->
                  IF i <= nr
                  THEN Feature(AloneRing(n.range_rings[i]),
                               RingProperties(n, n.range_rings[i]))
                  ELSE Feature(Decoded(n.polygons[i - nr]),
                               PolygonProperties(n, n.polygons[i - nr]))]]
        ELSE NoResult

\* C11: no step of any export, its own or another's, changes the Notam an
\* export was called on, whether that export returns or raises; and however
\* the steps of two exports are interleaved, each export that has ended
\* handed its caller what exporting its Notam alone yields.
C11_ExportLeavesNotamAndIsolated ==
    /\ [][\A c \in Callers : FrameOf(c)'.notam = FrameOf(c).notam]_vars
    /\ [](\A c \in Callers :
             FrameOf(c).epc \in {"returned", "raised"} =>
                 FrameOf(c).result = AloneOutcome(FrameOf(c).notam))

\* The second export ran from its call to its return while the first one
\* was suspended in the middle of sampling its circle.
C11_Witness ==
    /\ running = 2
    /\ epc = "returned" /\ result.returned /\ Len(result.features) = 1
    /\ parked[1].cpc = "loop"
    /\ parked[1].calls > 0 /\ parked[1].calls < ExportSegments
    /\ parked[1].notam # notam

\* The dumped dict of the i-th partial taken from the extraction stream.
DumpOf(i) == model_dump(partials[i])

RECURSIVE DueEvents(_)
\* The positions, among the first n partials, of those an event is due for:
\* the first, and each whose dict differs from that of the last one due.
DueEvents(n) ==
    IF n = 0 THEN <<>>
    ELSE LET before == DueEvents(n - 1)
         IN  IF before = <<>> \/ ~PyEq(DumpOf(n), DumpOf(before[Len(before)]))
             THEN Append(before, n)
             ELSE before

\* C12: the events emitted so far are those of the partials whose dumped
\* dict differs from the dict of the last emitted one (the first always), in
\* the order of the partials; no two consecutive events carry equal
\* payloads; and the last event is that of the last partial received.
C12_StreamDedupe ==
    LET due == DueEvents(pos)
    IN  /\ events = [i \in 1..Len(due) |-> SseEvent(DumpOf(due[i]))]
        /\ \A i \in 1..(Len(events) - 1) : events[i] # events[i + 1]
        /\ pos > 0 => events[Len(events)] = SseEvent(DumpOf(pos))

=============================================================================
